---- MODULE Spec2Model ----
(***************************************************************************)
(* State-machine model of the CSV-backed RSVP store (src/csvdb.rs,         *)
(* src/model.rs) and of the request handlers that call it under a lock     *)
(* (src/main.rs, src/state.rs).                                            *)
(*                                                                         *)
(* A string that the code trims, lower-cases or splits (a name, a plus-one *)
(* name, a query) is a sequence of one-character strings; the other text   *)
(* fields, which the code only copies and tests for emptiness, are plain   *)
(* strings.  The file is the sequence of its CSV rows; the cursor of a     *)
(* file handle counts the rows before it.                                  *)
(***************************************************************************)
EXTENDS Integers, Sequences, FiniteSets, TLC

(***************************************************************************)
(* Bounds of the model.                                                    *)
(***************************************************************************)
\* Largest number of store operations called in one run.
MaxOps == 4
\* Time stamps range over 0..MaxTime.
MaxTime == 1

\* Server workers, each running the application factory of main once.
NumWorkers == 2
\* Requests the server receives in one run.
NumReqs == 2

Times == 0..MaxTime

(***************************************************************************)
(* Strings: str::to_lowercase, str::trim, str::split('&').                 *)
(***************************************************************************)
lower_char(c) ==
    IF c = "A" THEN "a" ELSE IF c = "B" THEN "b" ELSE c

to_lowercase(s) == [i \in 1..Len(s) |-> lower_char(s[i])]

is_whitespace(c) == c = " "

RECURSIVE trim_start(_)
trim_start(s) ==
    IF s # <<>> /\ is_whitespace(Head(s)) THEN trim_start(Tail(s)) ELSE s

RECURSIVE trim_end(_)
trim_end(s) ==
    IF s # <<>> /\ is_whitespace(s[Len(s)])
    THEN trim_end(SubSeq(s, 1, Len(s) - 1))
    ELSE s

trim(s) == trim_end(trim_start(s))

\* name.split('&'): the pieces between the separators, empty pieces kept.
RECURSIVE split(_)
split(s) ==
    IF \A i \in 1..Len(s) : s[i] # "&"
    THEN <<s>>
    ELSE LET i == CHOOSE k \in 1..Len(s) :
                     s[k] = "&" /\ \A j \in 1..(k - 1) : s[j] # "&"
         IN  <<SubSeq(s, 1, i - 1)>> \o split(SubSeq(s, i + 1, Len(s)))

(***************************************************************************)
(* Inputs.                                                                 *)
(***************************************************************************)
Names ==
    { <<"a">>, <<"A">>, <<" ", "a">>, <<"a", "&", "b">> }

\* The parameters of test_add, which names a plus-one, under each name.
AddParamsSet == [name : Names, email : {"e"}, plus_one_name : { <<"b">> }]

\* The two parameter sets of the tests: test_rsvp (every field filled) and
\* the `updated` parameters of test::upsert (empty strings, no plus-one).
FilledRsvp(n) ==
    [name |-> n, email |-> "e", attending |-> TRUE,
     attending_secondary |-> TRUE, attending_tertiary |-> FALSE,
     meal_choice |-> "Fish", dietary_restrictions |-> "Yes",
     plus_one_attending |-> TRUE, plus_one_name |-> <<"b">>,
     plus_one_meal_choice |-> "Veggies",
     plus_one_dietary_restrictions |-> "No", comments |-> "wait"]

EmptyRsvp(n) ==
    [name |-> n, email |-> "", attending |-> TRUE,
     attending_secondary |-> TRUE, attending_tertiary |-> TRUE,
     meal_choice |-> "", dietary_restrictions |-> "",
     plus_one_attending |-> FALSE, plus_one_name |-> <<>>,
     plus_one_meal_choice |-> "",
     plus_one_dietary_restrictions |-> "", comments |-> "none"]

RsvpParamsSet == { FilledRsvp(n) : n \in Names } \cup { EmptyRsvp(n) : n \in Names }

(***************************************************************************)
(* RsvpModel (src/model.rs).                                               *)
(***************************************************************************)
new_with_rsvp(params, datetime) ==
    [name |-> params.name, email |-> params.email,
     attending |-> params.attending,
     attending_secondary |-> params.attending_secondary,
     attending_tertiary |-> params.attending_tertiary,
     meal_choice |-> params.meal_choice,
     dietary_restrictions |-> params.dietary_restrictions,
     plus_one_attending |-> params.plus_one_attending,
     plus_one_name |-> params.plus_one_name,
     plus_one_meal_choice |-> params.plus_one_meal_choice,
     plus_one_dietary_restrictions |-> params.plus_one_dietary_restrictions,
     comments |-> params.comments,
     created_at |-> datetime, updated_at |-> datetime]

\* A constructor that takes the guest added for attending.
new_with_add_attending(params, datetime) ==
    [name |-> params.name, email |-> params.email,
     attending |-> TRUE, attending_secondary |-> FALSE,
     attending_tertiary |-> FALSE,
     meal_choice |-> "", dietary_restrictions |-> "",
     plus_one_attending |-> FALSE, plus_one_name |-> params.plus_one_name,
     plus_one_meal_choice |-> "", plus_one_dietary_restrictions |-> "",
     comments |-> "",
     created_at |-> datetime, updated_at |-> datetime]

new_with_add(params, datetime) ==
    [name |-> params.name, email |-> params.email,
     attending |-> FALSE, attending_secondary |-> FALSE,
     attending_tertiary |-> FALSE,
     meal_choice |-> "", dietary_restrictions |-> "",
     plus_one_attending |-> FALSE, plus_one_name |-> params.plus_one_name,
     plus_one_meal_choice |-> "", plus_one_dietary_restrictions |-> "",
     comments |-> "",
     created_at |-> datetime, updated_at |-> datetime]

\* An update that overwrites both meal choices like every other field.
update_overwriting(self, params, datetime) ==
    IF self.name # params.name
    THEN [ok |-> FALSE, rec |-> self]
    ELSE [ok |-> TRUE,
          rec |-> [new_with_rsvp(params, datetime) EXCEPT
              !.name = self.name, !.created_at = self.created_at]]

\* RsvpModel::update: Err(Error::Update) when the names differ as strings,
\* else the merged record.
update(self, params, datetime) ==
    IF self.name # params.name
    THEN [ok |-> FALSE, rec |-> self]
    ELSE [ok |-> TRUE,
          rec |-> [self EXCEPT
              !.email = params.email,
              !.attending = params.attending,
              !.attending_secondary = params.attending_secondary,
              !.attending_tertiary = params.attending_tertiary,
              !.meal_choice = IF params.meal_choice # ""
                              THEN params.meal_choice ELSE @,
              !.dietary_restrictions = params.dietary_restrictions,
              !.plus_one_attending = params.plus_one_attending,
              !.plus_one_name = params.plus_one_name,
              !.plus_one_meal_choice = IF params.plus_one_meal_choice # ""
                                       THEN params.plus_one_meal_choice ELSE @,
              !.plus_one_dietary_restrictions =
                  params.plus_one_dietary_restrictions,
              !.comments = params.comments,
              !.updated_at = datetime]]

(***************************************************************************)
(* The CSV layer (csv::Writer, csv::Reader as the store configures them).  *)
(***************************************************************************)
\* The row of column names, HEADER_LINE: what a Writer built with
\* has_headers(true) emits before the first record it serializes.
HeaderRow == [kind |-> "header"]

\* Writer::serialize of one RsvpModel: one row holding the record's cells.
serialize(record) == [kind |-> "record", rec |-> record]

\* Rows a Writer emits for `records`: the header row is written by the first
\* call of serialize, so a writer that serializes nothing writes nothing.
write_records(has_headers, records) ==
    (IF has_headers /\ records # <<>> THEN <<HeaderRow>> ELSE <<>>)
        \o [i \in 1..Len(records) |-> serialize(records[i])]

\* Reader::deserialize of `row` under the reader's header row `headers` (the
\* first row of the file, whatever it holds).  serde reads a struct through
\* the header cells as keys, so every column name must be among them; a
\* record row used as the header lacks them (its boolean cells read "true"
\* or "false", never "attending"), and the header row read as a record fails
\* to parse its boolean and date cells.
deserialize(headers, row) ==
    IF headers.kind = "header" /\ row.kind = "record"
    THEN [ok |-> TRUE, rec |-> row.rec]
    ELSE [ok |-> FALSE, rec |-> row]

\* The file after writing `rows` through a handle whose cursor is at `pos`.
write_at(f, pos, rows) ==
    SubSeq(f, 1, pos) \o rows \o SubSeq(f, pos + Len(rows) + 1, Len(f))

Min(S) == CHOOSE x \in S : \A y \in S : x <= y

\* Where the cursor of the handle may stand after a reader consumed the rows
\* up to row i and stopped: the reader fills its buffer in blocks, so the
\* handle is at the end of row i or further on, at most at the end of file.
after_read(f, i) == i..Len(f)

(***************************************************************************)
(* The same layer at the level of bytes, for one row of two text cells (the *)
(* name and a free-text field): the csv Writer as WriterBuilder::new()      *)
(* leaves it (delimiter ',', quote '"', quotes doubled, QuoteStyle          *)
(* Necessary, terminator "\n") and the csv Reader as ReaderBuilder::new()   *)
(* leaves it (the same, a record ended by "\n", "\r" or "\r\n", empty lines *)
(* skipped).  A string is a sequence of one-character strings.              *)
(***************************************************************************)
\* Longest cell written.
MaxFieldLen == 2

Chars == { "a", ",", "\n", "\"" }

Cells == UNION { [1..k -> Chars] : k \in 0..MaxFieldLen }

\* The bytes add_header writes: writeln!(self.file, "{}", HEADER_LINE), here
\* with the two column names n and c.
header_bytes == << "n", ",", "c", "\n" >>

\* A writer that quotes a cell only for the delimiter.
needs_quotes_for_comma(cell) ==
    \E i \in 1..Len(cell) : cell[i] = ","

\* QuoteStyle::Necessary: a cell is quoted when it holds the delimiter, a
\* quote or a line break.
needs_quotes(cell) ==
    \E i \in 1..Len(cell) : cell[i] \in { ",", "\"", "\n", "\r" }

RECURSIVE double_quotes(_)
\* The cell with every quote doubled.
double_quotes(cell) ==
    IF cell = <<>> THEN <<>>
    ELSE (IF Head(cell) = "\"" THEN << "\"", "\"" >> ELSE << Head(cell) >>)
             \o double_quotes(Tail(cell))

write_field(cell) ==
    IF needs_quotes(cell)
    THEN << "\"" >> \o double_quotes(cell) \o << "\"" >>
    ELSE cell

RECURSIVE write_record(_)
\* Writer::serialize of the cells of one record: the fields separated by the
\* delimiter, then the terminator.
write_record(cells) ==
    IF Len(cells) = 1 THEN write_field(cells[1]) \o << "\n" >>
    ELSE write_field(cells[1]) \o << "," >> \o write_record(Tail(cells))

RECURSIVE read_records(_, _, _, _, _)
\* The rows a Reader yields for `bytes`: `state` is where the parser stands
\* ("start" of a field, "field" unquoted, "quoted", "quote" seen inside a
\* quoted field), `cell` and `row` what it has read of the current field and
\* record, `rows` the records completed.
read_records(bytes, state, cell, row, rows) ==
    IF bytes = <<>>
    THEN IF state = "start" /\ row = <<>> THEN rows
         ELSE Append(rows, Append(row, cell))
    ELSE LET c == Head(bytes)
             rest == Tail(bytes)
             is_break == c \in { "\n", "\r" }
         IN  IF state = "quoted"
             THEN IF c = "\""
                  THEN read_records(rest, "quote", cell, row, rows)
                  ELSE read_records(rest, "quoted", Append(cell, c), row, rows)
             ELSE IF c = "," 
             THEN read_records(rest, "start", <<>>, Append(row, cell), rows)
             ELSE IF is_break
             THEN IF state = "start" /\ row = <<>>
                  THEN read_records(rest, "start", <<>>, <<>>, rows)
                  ELSE read_records(rest, "start", <<>>, <<>>,
                                    Append(rows, Append(row, cell)))
             ELSE IF c = "\""
             THEN IF state = "start"
                  THEN read_records(rest, "quoted", cell, row, rows)
                  ELSE IF state = "quote"
                  THEN read_records(rest, "quoted", Append(cell, c), row, rows)
                  ELSE read_records(rest, "field", Append(cell, c), row, rows)
             ELSE read_records(rest, "field", Append(cell, c), row, rows)

(***************************************************************************)
(* CsvDb (src/csvdb.rs).  Each operation maps the file contents (and the   *)
(* store's time) to the new contents, the positions the cursor may be left *)
(* at, and the operation's result: ok/err, and in `out` the record(s)      *)
(* returned (None is <<>>, Some(r) is <<r>>).                              *)
(***************************************************************************)
NoAttendance ==
    [attending |-> 0, attending_secondary |-> 0, attending_tertiary |-> 0]

Outcome(f, cur, ok, err, out) ==
    [file |-> f, cur |-> cur, ok |-> ok, err |-> err, out |-> out,
     att |-> NoAttendance, text |-> <<>>]

\* Rows 2..Len(f) that the reader fails to decode.
bad_rows(f) == { i \in 2..Len(f) : ~deserialize(f[1], f[i]).ok }

\* A get_all that skips the rows it cannot decode and lists the others.
get_all_skipping(f) ==
    LET good == { i \in 2..Len(f) : deserialize(f[1], f[i]).ok }
        nth(k) == CHOOSE i \in good : Cardinality({ j \in good : j <= i }) = k
    IN  Outcome(f, {Len(f)}, TRUE, "",
                [k \in 1..Cardinality(good) |-> deserialize(f[1], f[nth(k)]).rec])

get_all(f) ==
    IF bad_rows(f) = {}
    THEN Outcome(f, {Len(f)}, TRUE, "",
                 [i \in 1..(Len(f) - 1) |-> deserialize(f[1], f[i + 1]).rec])
    ELSE Outcome(f, after_read(f, Min(bad_rows(f))), FALSE, "Csv", <<>>)

\* A get that compares the parts of the query with the primary name only.
matches_name_only(rsvp, name) ==
    \E k \in 1..Len(split(name)) :
        to_lowercase(rsvp.name) = to_lowercase(trim(split(name)[k]))

\* The test of the inner loop of get: some '&'-separated part of the query,
\* trimmed and lower-cased, equals the lower-cased name or plus-one name.
matches(rsvp, name) ==
    \E k \in 1..Len(split(name)) :
        LET part == to_lowercase(trim(split(name)[k]))
        IN  \/ to_lowercase(rsvp.name) = part
            \/ to_lowercase(rsvp.plus_one_name) = part

get(f, name) ==
    LET stops == { i \in 2..Len(f) :
                      \/ ~deserialize(f[1], f[i]).ok
                      \/ matches(deserialize(f[1], f[i]).rec, name) }
    IN  IF stops = {}
        THEN Outcome(f, {Len(f)}, TRUE, "", <<>>)
        ELSE LET i == Min(stops)
                 d == deserialize(f[1], f[i])
             IN  IF d.ok
                 THEN Outcome(f, after_read(f, i), TRUE, "", <<d.rec>>)
                 ELSE Outcome(f, after_read(f, i), FALSE, "Csv", <<>>)

\* A remove that, finding nothing, seeks to the start instead of the end.
remove_rewinding(f, name) ==
    LET all  == get_all(f)
        key  == to_lowercase(trim(name))
        hit(r) == to_lowercase(r.name) = key
        hits == { i \in 1..Len(all.out) : hit(all.out[i]) }
    IN  IF ~all.ok
        THEN all
        ELSE IF hits # {}
        THEN LET survivors == SelectSeq(all.out, LAMBDA r : ~hit(r))
                 rewritten == write_at(<<>>, 0, write_records(TRUE, survivors))
             IN  Outcome(rewritten, {Len(rewritten)}, TRUE, "",
                         <<all.out[Min(hits)]>>)
        ELSE Outcome(f, {0}, TRUE, "", <<>>)

remove(f, name) ==
    LET all  == get_all(f)
        key  == to_lowercase(trim(name))
        hit(r) == to_lowercase(r.name) = key
        hits == { i \in 1..Len(all.out) : hit(all.out[i]) }
    IN  IF ~all.ok
        THEN all
        ELSE IF hits # {}
        THEN LET survivors == SelectSeq(all.out, LAMBDA r : ~hit(r))
                 \* set_len(0), seek(Start(0)), then the writer's rows
                 rewritten == write_at(<<>>, 0, write_records(TRUE, survivors))
             IN  Outcome(rewritten, {Len(rewritten)}, TRUE, "",
                         <<all.out[Min(hits)]>>)
        ELSE Outcome(f, {Len(f)}, TRUE, "", <<>>)

insert(f, params, datetime) ==
    LET found == get(f, params.name)
    IN  IF ~found.ok
        THEN found
        ELSE IF found.out # <<>>
        THEN Outcome(f, {Len(f)}, FALSE, "Add", <<>>)
        ELSE LET record_to_insert == new_with_add(params, datetime)
                 written == write_at(f, Len(f),
                                     write_records(FALSE, <<record_to_insert>>))
             IN  Outcome(written, {Len(written)}, TRUE, "", <<record_to_insert>>)

upsert(f, params, datetime) ==
    LET removed == remove(f, params.name)
        \* the handle is where remove left it
        pos == CHOOSE c \in removed.cur : TRUE
        merged == update(removed.out[1], params, datetime)
    IN  IF ~removed.ok
        THEN removed
        ELSE IF removed.out # <<>> /\ ~merged.ok
        THEN Outcome(removed.file, removed.cur, FALSE, "Update", <<>>)
        ELSE LET record_to_insert ==
                     IF removed.out # <<>> THEN merged.rec
                     ELSE new_with_rsvp(params, datetime)
                 written == write_at(removed.file, pos,
                                     write_records(FALSE, <<record_to_insert>>))
             IN  Outcome(written, {pos + 1}, TRUE, "", <<record_to_insert>>)

RECURSIVE tally_heads(_, _)
\* Totals that count every attending record once, plus-one or not.
tally_heads(rs, acc) ==
    IF rs = <<>> THEN acc
    ELSE LET rsvp == Head(rs)
         IN  tally_heads(Tail(rs),
                 [attending |-> acc.attending +
                      (IF rsvp.attending THEN 1 ELSE 0),
                  attending_secondary |-> acc.attending_secondary +
                      (IF rsvp.attending_secondary THEN 1 ELSE 0),
                  attending_tertiary |-> acc.attending_tertiary +
                      (IF rsvp.attending_tertiary THEN 1 ELSE 0)])

RECURSIVE tally(_, _)
\* The running totals of attendance over the records `rs`, from `acc`.
tally(rs, acc) ==
    IF rs = <<>> THEN acc
    ELSE LET rsvp == Head(rs)
             number_attending == IF rsvp.plus_one_attending THEN 2 ELSE 1
         IN  tally(Tail(rs),
                 [attending |-> acc.attending +
                      (IF rsvp.attending THEN number_attending ELSE 0),
                  attending_secondary |-> acc.attending_secondary +
                      (IF rsvp.attending_secondary THEN number_attending ELSE 0),
                  attending_tertiary |-> acc.attending_tertiary +
                      (IF rsvp.attending_tertiary THEN number_attending ELSE 0)])

attendance(f) ==
    LET all == get_all(f)
    IN  IF ~all.ok
        THEN all
        ELSE [Outcome(f, {Len(f)}, TRUE, "", <<>>)
                 EXCEPT !.att = tally(all.out, NoAttendance)]

\* A dump that takes the contents out of the file.
dump_draining(f) == [Outcome(<<>>, {0}, TRUE, "", <<>>) EXCEPT !.text = f]

dump(f) == [Outcome(f, {Len(f)}, TRUE, "", <<>>) EXCEPT !.text = f]

(***************************************************************************)
(* State.                                                                  *)
(***************************************************************************)
VARIABLES
    file,   \* the rows of the CSV file on disk
    db,     \* the CsvDb called directly: its handle's cursor, its datetime
    last,   \* the last operation called on db: what, with what, its result
    ops,    \* the number of operations called on db so far
    fresh,  \* the names upserted so far, while the run is only such upserts
    app,    \* app[w]: the AppState of server worker w: its CsvDb and its lock
    reqs,   \* reqs[r]: the request r and where its handler stands
    clock,  \* the wall clock Utc::now() reads
    wire    \* one row at the level of bytes: its fields, the bytes of the
            \* file it is written to, the rows a reader gets from them

vars == <<file, db, last, ops, fresh, app, reqs, clock, wire>>

storeVars == <<db, last, ops, fresh>>
serverVars == <<app, reqs, clock>>

\* Query strings of get: a name in another case, with spaces around it, a
\* joint query, and a plus-one name.
Queries == { <<"A">>, <<" ", "a", " ">>, <<"a", "&", "b">>, <<"B">> }

NoParams == [name |-> <<>>]

Workers == 1..NumWorkers
Reqs == 1..NumReqs

IdleRequest ==
    [pc |-> "idle", kind |-> "none", worker |-> 0, params |-> NoParams,
     ok |-> TRUE, err |-> "", out |-> <<>>, sent |-> "none",
     resp |-> "none"]

NoWire == [stage |-> "none"]

\* AppState::new: the CsvDb over the opened file, inside a lock nobody holds;
\* `running` is the request whose handler the worker's thread is executing.
NewAppState ==
    [cursor |-> 0, datetime |-> 0, lock |-> {}, running |-> 0]

\* CsvDb::default(): a temporary file holding the header line, cursor after it.
Init ==
    /\ file = <<HeaderRow>>
    /\ db \in [cursor : {1}, datetime : Times]
    /\ last = [n |-> 0, op |-> "new", params |-> NoParams, time |-> 0,
               ok |-> TRUE,
               err |-> "", out |-> <<>>, att |-> NoAttendance, text |-> <<>>]
    /\ ops = 0
    /\ fresh = [on |-> TRUE, names |-> <<>>]
    /\ app = [w \in Workers |-> NewAppState]
    /\ reqs = [r \in Reqs |-> IdleRequest]
    /\ clock = 0
    /\ wire = NoWire

(***************************************************************************)
(* The operations of CsvDb called directly, as the unit tests call them.   *)
(***************************************************************************)
\* The state after operation `op` with `params` returned outcome `r`.
Returned(op, params, r) ==
    /\ ops < MaxOps
    /\ ops' = ops + 1
    /\ file' = r.file
    /\ \E c \in r.cur : db' = [db EXCEPT !.cursor = c]
    /\ last' = [n |-> ops + 1, op |-> op, params |-> params,
                time |-> db.datetime,
                ok |-> r.ok, err |-> r.err, out |-> r.out, att |-> r.att,
                text |-> r.text]
    /\ UNCHANGED <<serverVars, wire>>

\* The key the spec compares names by: trimmed, case-insensitive.
Key(name) == to_lowercase(trim(name))

\* CsvDb::update_time, to another time than the store holds
UpdateTime ==
    \E t \in Times \ {db.datetime} :
        /\ ops < MaxOps
        /\ ops' = ops + 1
        /\ db' = [db EXCEPT !.datetime = t]
        /\ UNCHANGED <<file, last, fresh>>
        /\ UNCHANGED <<serverVars, wire>>

Insert ==
    \E params \in AddParamsSet :
        /\ Returned("insert", params, insert(file, params, db.datetime))
        /\ fresh' = [fresh EXCEPT !.on = FALSE]

Upsert ==
    \E params \in RsvpParamsSet :
        /\ Returned("upsert", params, upsert(file, params, db.datetime))
        /\ fresh' =
             IF fresh.on /\ \A i \in 1..Len(fresh.names) :
                                Key(fresh.names[i]) # Key(params.name)
             THEN [fresh EXCEPT !.names = Append(@, params.name)]
             ELSE [fresh EXCEPT !.on = FALSE]

Remove ==
    \E name \in Names :
        /\ Returned("remove", [name |-> name], remove(file, name))
        /\ fresh' = [fresh EXCEPT !.on = FALSE]

Get ==
    \E name \in Queries :
        /\ Returned("get", [name |-> name], get(file, name))
        /\ fresh' = [fresh EXCEPT !.on = FALSE]

GetAll ==
    /\ Returned("get_all", NoParams, get_all(file))
    /\ fresh' = [fresh EXCEPT !.on = FALSE]

Attendance ==
    /\ Returned("attendance", NoParams, attendance(file))
    /\ fresh' = [fresh EXCEPT !.on = FALSE]

Dump ==
    /\ Returned("dump", NoParams, dump(file))
    /\ fresh' = [fresh EXCEPT !.on = FALSE]

Next ==
    \/ UpdateTime
    \/ Insert
    \/ Upsert
    \/ Remove
    \/ Get
    \/ GetAll
    \/ Attendance
    \/ Dump

Spec == Init /\ [][Next]_vars

\* CsvDb::new over a file that OpenOptions ...create(true).open(csv_filename)
\* has just created, as AppState::new builds it: no row, cursor at 0.
InitNewFile ==
    /\ file = <<>>
    /\ db \in [cursor : {0}, datetime : Times]
    /\ last = [n |-> 0, op |-> "new", params |-> NoParams, time |-> 0,
               ok |-> TRUE,
               err |-> "", out |-> <<>>, att |-> NoAttendance, text |-> <<>>]
    /\ ops = 0
    /\ fresh = [on |-> TRUE, names |-> <<>>]
    /\ app = [w \in Workers |-> NewAppState]
    /\ reqs = [r \in Reqs |-> IdleRequest]
    /\ clock = 0
    /\ wire = NoWire

SpecNewFile == InitNewFile /\ [][Next]_vars

(***************************************************************************)
(* One record written to a store holding the header and read back, at the  *)
(* level of bytes, as test::check_name does: upsert on CsvDb::default(),    *)
(* then get_all.                                                           *)
(***************************************************************************)
InitCsv ==
    /\ file = <<HeaderRow>>
    /\ db = [cursor |-> 1, datetime |-> 0]
    /\ last = [n |-> 0, op |-> "new", params |-> NoParams, time |-> 0,
               ok |-> TRUE,
               err |-> "", out |-> <<>>, att |-> NoAttendance, text |-> <<>>]
    /\ ops = 0
    /\ fresh = [on |-> FALSE, names |-> <<>>]
    /\ app = [w \in Workers |-> NewAppState]
    /\ reqs = [r \in Reqs |-> IdleRequest]
    /\ clock = 0
    /\ wire \in [stage : {"new"}, name : Cells, text : Cells,
                  bytes : {header_bytes}, rows : {<<>>}]

\* upsert of a new name: the row is written at the end of the file.
CsvWrite ==
    /\ wire.stage = "new"
    /\ wire' = [wire EXCEPT
           !.stage = "written",
           !.bytes = @ \o write_record(<< wire.name, wire.text >>)]
    /\ UNCHANGED <<file, storeVars, serverVars>>

\* get_all: the reader takes the first row for the header and yields the
\* others.
CsvRead ==
    /\ wire.stage = "written"
    /\ wire' = [wire EXCEPT
           !.stage = "read",
           !.rows = Tail(read_records(wire.bytes, "start", <<>>, <<>>, <<>>))]
    /\ UNCHANGED <<file, storeVars, serverVars>>

NextCsv ==
    \/ CsvWrite
    \/ CsvRead

SpecCsv == InitCsv /\ [][NextCsv]_vars

(***************************************************************************)
(* The server (src/main.rs, src/state.rs).  HttpServer::new runs its       *)
(* factory closure once in every worker, and the closure calls             *)
(* AppState::new: every worker opens the CSV file itself and wraps its own *)
(* CsvDb in its own lock.  A worker is one thread: it executes one handler *)
(* at a time and takes up another only when that one returns or waits at   *)
(* an .await.  The handlers call state.db.write().unwrap(), the blocking   *)
(* exclusive acquisition of the lock.                                      *)
(***************************************************************************)
\* Forms posted to /fetch, /rsvp and /add.
FetchForms == { [name |-> <<>>], [name |-> <<"a">>], [name |-> <<"B">>] }
RsvpForms == { FilledRsvp(<<"a">>), EmptyRsvp(<<"A">>) }
AddForms == { [name |-> <<"a">>, email |-> "e", plus_one_name |-> <<>>] }

Forms(kind) ==
    IF kind = "fetch" THEN FetchForms
    ELSE IF kind = "rsvp" THEN RsvpForms
    ELSE AddForms

\* The CSV file the server is started on: just created by open, or holding
\* the header line.
ServerInit ==
    /\ file \in { <<>>, <<HeaderRow>> }
    /\ db = [cursor |-> 0, datetime |-> 0]
    /\ last = [n |-> 0, op |-> "new", params |-> NoParams, time |-> 0,
               ok |-> TRUE, err |-> "", out |-> <<>>, att |-> NoAttendance,
               text |-> <<>>]
    /\ ops = 0
    /\ fresh = [on |-> FALSE, names |-> <<>>]
    /\ app = [w \in Workers |-> NewAppState]
    /\ reqs = [r \in Reqs |-> IdleRequest]
    /\ clock = 0
    /\ wire = NoWire

\* A lock that hands out its guard whoever holds one.
can_write_unguarded(lock) == TRUE

\* RwLock::write returns its guard only while no other guard is alive.
can_write(lock) == lock = {}

\* The worker's thread is executing the handler of request r.
Running(r) == reqs[r].worker # 0 /\ app[reqs[r].worker].running = r

\* A worker accepts request r and starts its handler.  Requests are numbered
\* in their order of arrival, and of the workers that are still as
\* AppState::new left them, which are all alike, the first one accepts.
Receive(r) ==
    /\ reqs[r].pc = "idle"
    /\ \A q \in Reqs : q < r => reqs[q].pc # "idle"
    /\ \E w \in Workers, kind \in {"fetch", "rsvp", "add"} :
         \E params \in Forms(kind) :
            /\ app[w].running = 0
            /\ \A v \in Workers : v < w => app[v] # NewAppState
            /\ app' = [app EXCEPT ![w].running = r]
            /\ reqs' = [reqs EXCEPT ![r] =
                   [IdleRequest EXCEPT !.pc = "start", !.kind = kind,
                                       !.worker = w, !.params = params]]
    /\ UNCHANGED <<file, clock>>
    /\ UNCHANGED <<storeVars, wire>>

\* A handler that looks up whatever name it is given.
name_is_empty_never(name) == FALSE

\* params.name.is_empty()
name_is_empty(name) == name = <<>>

\* handle_fetch, an empty name: the not-found page, the store not touched.
FetchEmpty(r) ==
    /\ Running(r)
    /\ reqs[r].pc = "start"
    /\ reqs[r].kind = "fetch" /\ name_is_empty(reqs[r].params.name)
    /\ reqs' = [reqs EXCEPT ![r] = [IdleRequest EXCEPT
                    !.pc = "done", !.kind = "fetch", !.resp = "not_found",
                    !.params = reqs[r].params]]
    /\ app' = [app EXCEPT ![reqs[r].worker].running = 0]
    /\ UNCHANGED <<file, clock>>
    /\ UNCHANGED <<storeVars, wire>>

\* let mut db = state.db.write().unwrap(): the thread waits for the lock of
\* its own AppState.
Lock(r) ==
    /\ Running(r)
    /\ reqs[r].pc = "start"
    /\ ~(reqs[r].kind = "fetch" /\ name_is_empty(reqs[r].params.name))
    /\ can_write(app[reqs[r].worker].lock)
    /\ app' = [app EXCEPT ![reqs[r].worker].lock = @ \cup {r}]
    /\ reqs' = [reqs EXCEPT ![r].pc = "locked"]
    /\ UNCHANGED <<file, clock>>
    /\ UNCHANGED <<storeVars, wire>>

\* The request r answered with `resp`: its handler has returned, which drops
\* its guard `db` if it took one, and the worker's thread is free.
Answered(r, resp) ==
    [IdleRequest EXCEPT !.pc = "done", !.kind = reqs[r].kind, !.resp = resp]

Released(a, r) == [a EXCEPT !.lock = @ \ {r}, !.running = 0]

\* The AppState `a` after its CsvDb ran an operation with outcome `o`,
\* leaving the cursor at `c`, at store time `t`.
Called_on(a, c, t) == [a EXCEPT !.cursor = c, !.datetime = t]

\* handle_fetch: db.get(&name), then the page for the record or not-found.
FetchGet(r) ==
    /\ Running(r)
    /\ reqs[r].pc = "locked" /\ reqs[r].kind = "fetch"
    /\ LET w == reqs[r].worker
           o == get(file, reqs[r].params.name)
       IN  /\ file' = o.file
           /\ \E c \in o.cur :
                app' = [app EXCEPT
                    ![w] = Released(Called_on(app[w], c, app[w].datetime), r)]
           /\ reqs' = [reqs EXCEPT ![r] =
                  [Answered(r, IF ~o.ok THEN "error"
                               ELSE IF o.out # <<>> THEN "rsvp_page"
                               ELSE "not_found")
                      EXCEPT !.params = reqs[r].params]]
    /\ UNCHANGED clock
    /\ UNCHANGED <<storeVars, wire>>

\* handle_rsvp: db.update_time(Utc::now()) and db.upsert(&params); on Err
\* the handler goes on to send the error mail and waits for it.
RsvpUpsert(r) ==
    /\ Running(r)
    /\ reqs[r].pc = "locked" /\ reqs[r].kind = "rsvp"
    /\ \E t \in clock..MaxTime :
         LET w == reqs[r].worker
             o == upsert(file, reqs[r].params, t)
         IN  /\ clock' = t
             /\ file' = o.file
             /\ \E c \in o.cur :
                  app' = [app EXCEPT
                      ![w] = [Called_on(app[w], c, t) EXCEPT
                                 !.running = IF o.ok THEN r ELSE 0]]
             /\ reqs' = [reqs EXCEPT
                    ![r].pc = IF o.ok THEN "dump" ELSE "await_error",
                    ![r].ok = o.ok, ![r].err = o.err, ![r].out = o.out]
    /\ UNCHANGED <<storeVars, wire>>

\* handle_rsvp: db.dump(), then send_csv(...).await.
RsvpDump(r) ==
    /\ Running(r)
    /\ reqs[r].pc = "dump"
    /\ LET w == reqs[r].worker
           o == dump(file)
       IN  /\ file' = o.file
           /\ \E c \in o.cur :
                app' = [app EXCEPT
                    ![w] = [Called_on(app[w], c, app[w].datetime) EXCEPT
                               !.running = 0]]
           /\ reqs' = [reqs EXCEPT ![r].pc = "await_csv"]
    /\ UNCHANGED clock
    /\ UNCHANGED <<storeVars, wire>>

\* A handler that returns the mail's error when the mail could not be sent.
rsvp_response_masking(upserted, record, error, sent) ==
    IF ~sent THEN [resp |-> "error", out |-> <<>>, err |-> "Email"]
    ELSE IF upserted
    THEN [resp |-> "confirm_page", out |-> record, err |-> ""]
    ELSE [resp |-> "error", out |-> <<>>, err |-> error]

\* What handle_rsvp returns once the mail was sent (sent) or not: in the Ok
\* arm of the match the confirmation page of `record`, in the Err arm
\* Err(error.into()); an Err of send_csv or send_rsvp_error is only logged.
rsvp_response(upserted, record, error, sent) ==
    IF upserted
    THEN [resp |-> "confirm_page", out |-> record, err |-> ""]
    ELSE [resp |-> "error", out |-> <<>>, err |-> error]

\* The mail was sent or failed; the thread, free again, resumes the handler,
\* which returns.
EmailDone(r) ==
    /\ reqs[r].pc \in {"await_csv", "await_error"}
    /\ app[reqs[r].worker].running = 0
    /\ \E sent \in BOOLEAN :
         LET ret == rsvp_response(reqs[r].pc = "await_csv", reqs[r].out,
                                  reqs[r].err, sent)
         IN  reqs' = [reqs EXCEPT ![r] =
                 [Answered(r, ret.resp)
                     EXCEPT !.out = ret.out, !.err = ret.err,
                            !.sent = IF sent THEN "ok" ELSE "failed"]]
    /\ app' = [app EXCEPT ![reqs[r].worker] = Released(@, r)]
    /\ UNCHANGED <<file, clock>>
    /\ UNCHANGED <<storeVars, wire>>

\* handle_add: db.update_time(Utc::now()) and db.insert(&params).
AddInsert(r) ==
    /\ Running(r)
    /\ reqs[r].pc = "locked" /\ reqs[r].kind = "add"
    /\ \E t \in clock..MaxTime :
         LET w == reqs[r].worker
             o == insert(file, reqs[r].params, t)
         IN  /\ clock' = t
             /\ file' = o.file
             /\ \E c \in o.cur :
                  app' = [app EXCEPT
                      ![w] = Released(Called_on(app[w], c, t), r)]
             /\ reqs' = [reqs EXCEPT ![r] =
                    Answered(r, IF o.ok THEN "added" ELSE "error")]
    /\ UNCHANGED <<storeVars, wire>>

ServerNext ==
    \E r \in Reqs :
        \/ Receive(r)
        \/ FetchEmpty(r)
        \/ Lock(r)
        \/ FetchGet(r)
        \/ RsvpUpsert(r)
        \/ RsvpDump(r)
        \/ EmailDone(r)
        \/ AddInsert(r)

SpecServer == ServerInit /\ [][ServerNext]_vars

(***************************************************************************)
(* Properties of the store, checked under Spec.                            *)
(***************************************************************************)
\* The step is a call of operation `op` on db.
Called(op) == last'.n = ops + 1 /\ last'.op = op

\* The positions of `f` that hold a record row.
record_rows(f) == { i \in 1..Len(f) : f[i].kind = "record" }

\* C1: the file never holds two records whose names are equal under
\* case-insensitive comparison, whatever insert, upsert and remove calls were
\* made on a store that started with the header only.
C1_UniqueNames ==
    \A i, j \in record_rows(file) :
        i # j => to_lowercase(file[i].rec.name) # to_lowercase(file[j].rec.name)

\* C2: after an upsert(params) call that returned a record, listAll returns
\* exactly one record for params.name, and it is the last element.
C2_UpsertOneRowLast ==
    (last.op = "upsert" /\ last.ok) =>
        LET all == get_all(file)
        IN  /\ all.ok
            /\ Cardinality({ i \in 1..Len(all.out) :
                   Key(all.out[i].name) = Key(last.params.name) }) = 1
            /\ Key(all.out[Len(all.out)].name) = Key(last.params.name)

to_uppercase(s) ==
    [i \in 1..Len(s) |->
        IF s[i] = "a" THEN "A" ELSE IF s[i] = "b" THEN "B" ELSE s[i]]

\* The name in other letter case and with whitespace around it.
Respelled(name) ==
    { name, to_lowercase(name), to_uppercase(name),
      <<" ">> \o name \o <<" ">> }

\* C3: after a successful insert(params), get(q) returns a record equal to the
\* one insert returned, for q the name in any letter case and with any
\* surrounding whitespace.
C3_InsertThenGet ==
    (last.op = "insert" /\ last.ok) =>
        \A q \in Respelled(last.params.name) :
            get(file, q).ok /\ get(file, q).out = last.out

\* C4: insert called a second time with the same name returns Error::Add and
\* leaves the file as it was after the first call.
C4_SecondInsertRejected ==
    [][ ( /\ last.op = "insert" /\ last.ok
          /\ Called("insert")
          /\ last'.params.name = last.params.name )
        => (~last'.ok /\ last'.err = "Add" /\ file' = file) ]_vars

\* C5: upsert applied twice with the same parameters, the store's time
\* advanced in between, leaves exactly one record for that name in listAll,
\* with the created_at of the first call's record and the second call's time
\* as updated_at.
C5_UpsertTwice ==
    [][ ( /\ last.op = "upsert" /\ last.ok
          /\ Called("upsert")
          /\ last'.params = last.params
          /\ last.time < last'.time )
        => LET all  == get_all(file')
               mine == { i \in 1..Len(all.out) :
                           Key(all.out[i].name) = Key(last.params.name) }
           IN  /\ last'.ok
               /\ all.ok
               /\ Cardinality(mine) = 1
               /\ \A i \in mine :
                    /\ all.out[i].created_at = last.out[1].created_at
                    /\ all.out[i].updated_at = last'.time ]_vars

\* The names of the records `rs`, in order.
names_of(rs) == [i \in 1..Len(rs) |-> rs[i].name]

\* C6: after N >= 1 distinct names were upserted in sequence into a
\* header-only store, listAll returns N records in upsert order; upserting one
\* of those names again keeps the count, moves that record to the last
\* position and leaves the other records unchanged and in their order.
C6_UpsertSequence ==
    [][ /\ (fresh'.on /\ fresh'.names # <<>>) =>
               /\ get_all(file').ok
               /\ names_of(get_all(file').out) = fresh'.names
        /\ ( /\ fresh.on /\ fresh.names # <<>>
             /\ Called("upsert")
             /\ \E i \in 1..Len(fresh.names) :
                    fresh.names[i] = last'.params.name )
           => LET before == get_all(file).out
                  after  == get_all(file').out
                  other(r) == r.name # last'.params.name
              IN  /\ get_all(file').ok
                  /\ Len(after) = Len(before)
                  /\ after[Len(after)].name = last'.params.name
                  /\ SelectSeq(after, other) = SelectSeq(before, other) ]_vars

\* C7: remove(name) of a name that matches no stored record returns no record
\* and leaves listAll unchanged; remove(name) of a stored name returns that
\* record and leaves listAll shorter by exactly one.
C7_RemoveEffect ==
    [][ (Called("remove") /\ get_all(file).ok) =>
          LET before == get_all(file).out
              hits == { i \in 1..Len(before) :
                          to_lowercase(before[i].name) = Key(last'.params.name) }
          IN  IF hits = {}
              THEN /\ last'.ok /\ last'.out = <<>>
                   /\ get_all(file') = get_all(file)
              ELSE /\ last'.ok /\ last'.out = <<before[Min(hits)]>>
                   /\ get_all(file').ok
                   /\ Len(get_all(file').out) = Len(before) - 1 ]_vars

\* C8: after remove(name) found and removed a record, the file is the
\* original header row followed by the surviving records in their original
\* order, also when the removed record was the only one.
C8_RemoveKeepsHeader ==
    [][ (Called("remove") /\ last'.ok /\ last'.out # <<>>) =>
          file' = <<file[1]>> \o
                  SelectSeq(Tail(file),
                      LAMBDA row : to_lowercase(row.rec.name)
                                       # Key(last'.params.name)) ]_vars

\* The parts of a query as get compares them: split on '&', each part
\* trimmed and lower-cased.
C11_parts(query) ==
    { to_lowercase(trim(split(query)[k])) : k \in 1..Len(split(query)) }

\* C11: get(query) returns the first record in file order whose lower-cased
\* name or plus-one name is one of the parts of the query, and returns no
\* record exactly when no record of the file matches a part; the records of
\* the file are those get_all lists.
C11_GetFirstMatch ==
    (last.op = "get" /\ get_all(file).ok) =>
        LET recs == get_all(file).out
            hits == { i \in 1..Len(recs) :
                        \/ to_lowercase(recs[i].name) \in C11_parts(last.params.name)
                        \/ to_lowercase(recs[i].plus_one_name)
                               \in C11_parts(last.params.name) }
        IN  /\ last.ok
            /\ last.out = IF hits = {} THEN <<>> ELSE <<recs[Min(hits)]>>

\* C11 case: a query for a plus-one name returned the record owning it, which
\* is not the first record of the file.
C11_Witness ==
    /\ last.op = "get" /\ last.ok /\ last.out # <<>>
    /\ last.params.name = <<"B">>
    /\ get_all(file).ok
    /\ Len(get_all(file).out) >= 2
    /\ last.out[1] # get_all(file).out[1]
    /\ last.out[1].plus_one_name = <<"b">>

\* The total of one tier over the records `recs`: 2 for a record with the
\* tier flag and plus_one_attending, 1 for one with the tier flag only.
C12_total(recs, tier) ==
    2 * Cardinality({ i \in 1..Len(recs) :
                        recs[i][tier] /\ recs[i].plus_one_attending })
    + Cardinality({ i \in 1..Len(recs) :
                        recs[i][tier] /\ ~recs[i].plus_one_attending })

\* C12: attendance returns, for each of the three tiers independently, the
\* sum over the records get_all lists of 2 (tier flag and plus_one_attending),
\* 1 (tier flag only) or 0; all three are zero when no record is stored.
C12_AttendanceTotals ==
    (last.op = "attendance" /\ last.ok) =>
        /\ get_all(file).ok
        /\ \A tier \in {"attending", "attending_secondary", "attending_tertiary"} :
              last.att[tier] = C12_total(get_all(file).out, tier)
        /\ (get_all(file).out = <<>> => last.att = NoAttendance)

\* C12 case: totals over a record with a plus-one and a record without, the
\* tiers differing.
C12_Witness ==
    /\ last.op = "attendance" /\ last.ok
    /\ last.att.attending = 3
    /\ last.att.attending_tertiary = 1

\* C13: every record of the file has updated_at >= created_at, and an upsert
\* that merges into a stored record keeps that record's created_at, whatever
\* times update_time set in between.
C13_Timestamps ==
    [][ /\ \A i \in record_rows(file') :
              file'[i].rec.updated_at >= file'[i].rec.created_at
        /\ (Called("upsert") /\ last'.ok /\ get_all(file).ok
               /\ \E i \in 1..Len(get_all(file).out) :
                      get_all(file).out[i].name = last'.params.name)
             => \E i \in 1..Len(get_all(file).out) :
                    /\ get_all(file).out[i].name = last'.params.name
                    /\ get_all(file).out[i].created_at = last'.out[1].created_at
      ]_vars

\* The record a merge of `params` into `prev` at time `t` yields when every
\* field but name and created_at takes the incoming value, except that the
\* fields in `keep` stay as they were when the incoming value is empty.
C14_merged(prev, params, t, keep) ==
    [f \in DOMAIN prev |->
        IF f \in {"name", "created_at"} THEN prev[f]
        ELSE IF f = "updated_at" THEN t
        ELSE IF f \in keep /\ params[f] = "" THEN prev[f]
        ELSE params[f]]

\* An upsert that found a stored record `prev` under its name and succeeded
\* returned the merge into `prev` that keeps the fields in `keep`, and wrote
\* it as the last row.
C14_MergeStep(keep) ==
    (Called("upsert") /\ last'.ok /\ get_all(file).ok
       /\ \E i \in 1..Len(get_all(file).out) :
              to_lowercase(get_all(file).out[i].name) = Key(last'.params.name))
    => LET recs == get_all(file).out
           prev == recs[Min({ i \in 1..Len(recs) :
                       to_lowercase(recs[i].name) = Key(last'.params.name) })]
       IN  /\ last'.out =
                 << C14_merged(prev, last'.params, db.datetime, keep) >>
           /\ file'[Len(file')] = serialize(last'.out[1])

\* C14 as stated: when upsert merges into an existing record, every field
\* except name and created_at takes the incoming value, empty strings
\* included, with the one exception that an empty incoming meal_choice leaves
\* the previous one; updated_at is the store's current time.
C14_MergeOneException == [][C14_MergeStep({"meal_choice"})]_vars

\* C14 amended: the same, with two exceptions: an empty incoming meal_choice
\* and an empty incoming plus_one_meal_choice each leave the previous value.
C14_MergeTwoExceptions ==
    [][C14_MergeStep({"meal_choice", "plus_one_meal_choice"})]_vars

\* C14 case: an upsert with empty strings merged into a record whose fields
\* were filled.
C14_Witness ==
    /\ last.op = "upsert" /\ last.ok
    /\ last.params = EmptyRsvp(<<"a">>)
    /\ last.out[1].meal_choice = "Fish"
    /\ last.out[1].plus_one_meal_choice = "Veggies"
    /\ last.out[1].dietary_restrictions = ""
    /\ last.out[1].plus_one_name = <<>>
    /\ last.out[1].updated_at > last.out[1].created_at

\* C15: insert(params) fails with the duplicate-key error exactly when some
\* stored record's primary name equals params.name, both trimmed and compared
\* case-insensitively, leaving the file as it was; otherwise it appends one row
\* at the end of the file and returns the new record.  A plus-one name equal
\* to params.name or to a part of it is no reason to reject.
C15_InsertDuplicateOnly ==
    [][ (Called("insert") /\ get_all(file).ok) =>
          IF \E i \in 1..Len(get_all(file).out) :
                 Key(get_all(file).out[i].name) = Key(last'.params.name)
          THEN ~last'.ok /\ last'.err = "Add" /\ file' = file
          ELSE /\ last'.ok
               /\ Len(last'.out) = 1
               /\ file' = file \o << serialize(last'.out[1]) >>
      ]_vars

\* C16: upsert(params) for a name no stored record has succeeds: it returns a
\* record whose fields equal the parameters, with created_at = updated_at = the
\* store's time, appended as the last row, and get_all afterwards lists a
\* record equal to it.
C16_UpsertNewName ==
    [][ (Called("upsert") /\ get_all(file).ok
           /\ \A i \in 1..Len(get_all(file).out) :
                  Key(get_all(file).out[i].name) # Key(last'.params.name))
        => /\ last'.ok
           /\ Len(last'.out) = 1
           /\ \A f \in DOMAIN last'.params : last'.out[1][f] = last'.params[f]
           /\ last'.out[1].created_at = db.datetime
           /\ last'.out[1].updated_at = db.datetime
           /\ file'[Len(file')] = serialize(last'.out[1])
           /\ get_all(file').ok
           /\ \E i \in 1..Len(get_all(file').out) :
                  get_all(file').out[i] = last'.out[1]
      ]_vars

\* C17: upsert never returns the merge step's name-mismatch error
\* (Error::Update), whatever the spelling of params.name.
C17_NoUpdateError ==
    last.op = "upsert" => last.err # "Update"

\* C19: on a file holding a malformed row, get_all, attendance, remove and
\* upsert return the decoding error with no records and no totals, and leave
\* the file as it was.
C19_MalformedRowAborts ==
    [][ (bad_rows(file) # {}
           /\ \E op \in {"get_all", "attendance", "remove", "upsert"} : Called(op))
        => /\ ~last'.ok /\ last'.err = "Csv"
           /\ last'.out = <<>>
           /\ last'.att = NoAttendance
           /\ file' = file
      ]_vars

\* C19 case: upsert was called on a file with a row the reader cannot decode
\* and returned the decoding error.
C19_Witness ==
    /\ last.op = "upsert" /\ last.err = "Csv"
    /\ bad_rows(file) # {}

\* The rows of `f` before its last one.
C20_before_last(f) == SubSeq(f, 1, Len(f) - 1)

\* C20: cursor discipline.  A read scan starts at offset 0: get_all lists the
\* records of all rows after the first, wherever the previous operation left
\* the cursor.  A row appended by insert or upsert is written at the physical
\* end of the file: insert leaves every existing row in place before the new
\* one, upsert leaves before the new row exactly the rows of the file (no
\* record found) or the rows its rewrite kept, and the cursor ends at the end
\* of the file.
C20_CursorDiscipline ==
    [][ /\ (Called("get_all") /\ last'.ok /\ file # <<>>)
            => last'.out = [i \in 1..(Len(file) - 1) |-> file[i + 1].rec]
        /\ (Called("insert") /\ last'.ok)
            => /\ file' = file \o << serialize(last'.out[1]) >>
               /\ db'.cursor = Len(file')
        /\ (Called("upsert") /\ last'.ok)
            => LET recs == get_all(file).out
                   gone(r) == to_lowercase(r.name) = Key(last'.params.name)
               IN  /\ file' # <<>>
                   /\ file'[Len(file')] = serialize(last'.out[1])
                   /\ db'.cursor = Len(file')
                   /\ IF \E i \in 1..Len(recs) : gone(recs[i])
                      THEN SelectSeq(C20_before_last(file'),
                                     LAMBDA row : row.kind = "record")
                             = [i \in 1..Len(SelectSeq(recs, LAMBDA r : ~gone(r)))
                                  |-> serialize(SelectSeq(recs,
                                                    LAMBDA r : ~gone(r))[i])]
                      ELSE C20_before_last(file') = file
      ]_vars

\* C20 case: upsert appended the row of a new name at the end of a file that
\* already held a record of another name.
C20_Witness ==
    /\ last.op = "upsert" /\ last.ok
    /\ Len(file) >= 3
    /\ file[Len(file)] = serialize(last.out[1])
    /\ db.cursor = Len(file)
    /\ file[2].kind = "record"
    /\ Key(file[2].rec.name) # Key(last.params.name)
    /\ last.out[1].created_at = last.time /\ last.out[1].updated_at = last.time

\* C24: a record created by insert has name, email and plus_one_name from the
\* parameters, the three attendance flags and plus_one_attending false, every
\* other text field empty, and created_at = updated_at = the store's time;
\* the row appended to the file decodes under the header line to the returned
\* record, and a store made of the header line and inserted records only has
\* all attendance totals zero.
C24_InsertedRecord ==
    [][ (Called("insert") /\ last'.ok)
        => LET rec == last'.out[1]
           IN  /\ rec.name = last'.params.name
               /\ rec.email = last'.params.email
               /\ rec.plus_one_name = last'.params.plus_one_name
               /\ ~rec.attending /\ ~rec.attending_secondary
               /\ ~rec.attending_tertiary /\ ~rec.plus_one_attending
               /\ rec.meal_choice = "" /\ rec.dietary_restrictions = ""
               /\ rec.plus_one_meal_choice = ""
               /\ rec.plus_one_dietary_restrictions = ""
               /\ rec.comments = ""
               /\ rec.created_at = db.datetime /\ rec.updated_at = db.datetime
               /\ Len(file') = Len(file) + 1
               /\ SubSeq(file', 1, Len(file)) = file
               /\ deserialize(HeaderRow, file'[Len(file')])
                    = [ok |-> TRUE, rec |-> rec]
               /\ ( /\ file'[1] = HeaderRow
                    /\ \A i \in 2..Len(file') :
                          /\ file'[i].kind = "record"
                          /\ file'[i].rec.email = rec.email
                          /\ file'[i].rec.comments = rec.comments
                          /\ file'[i].rec.attending = rec.attending )
                    => /\ attendance(file').ok
                       /\ attendance(file').att = NoAttendance
      ]_vars

\* C24 case: a third record was inserted, at time 1, into a store that holds
\* the header line and inserted records.
C24_Witness ==
    /\ last.op = "insert" /\ last.ok
    /\ last.out[1].created_at = 1
    /\ file[Len(file)] = serialize(last.out[1])
    /\ Len(file) = 4 /\ file[1] = HeaderRow
    /\ \A i \in 2..Len(file) :
          file[i].kind = "record" /\ file[i].rec.comments = ""
    /\ attendance(file).ok

\* C25: a record is destroyed only by remove: when upsert returns an error,
\* every record stored before the call, the one for the targeted key
\* included, is still listed by get_all afterwards.
C25_UpsertErrorKeepsRecords ==
    [][ (Called("upsert") /\ ~last'.ok /\ get_all(file).ok)
        => /\ get_all(file').ok
           /\ \A i \in 1..Len(get_all(file).out) :
                 \E j \in 1..Len(get_all(file').out) :
                    get_all(file').out[j] = get_all(file).out[i]
      ]_vars

\* C26: get, get_all, attendance and dump never change the contents of the
\* file, whether they find a record, find none or fail.
C26_ReadsKeepFile ==
    [][ ( \/ Called("get") \/ Called("get_all")
          \/ Called("attendance") \/ Called("dump") )
        => file' = file ]_vars

\* C26 case: a get failed on a file that has lost its header line and holds
\* two records, and the two records are still there.
C26_Witness ==
    /\ last.op = "get" /\ ~last.ok /\ last.err = "Csv"
    /\ Len(file) = 2 /\ file[1].kind = "record" /\ file[2].kind = "record"

\* C27: after remove(name) has returned successfully, no stored record has a
\* name equal to `name` when both are trimmed and compared without case; of
\* several such records remove returns the first in file order and deletes
\* them all.
C27_RemoveLeavesNone ==
    [][ (Called("remove") /\ last'.ok /\ get_all(file).ok)
        => LET before == get_all(file).out
               hits == { i \in 1..Len(before) :
                           Key(before[i].name) = Key(last'.params.name) }
           IN  /\ get_all(file').ok
                   => \A j \in 1..Len(get_all(file').out) :
                         Key(get_all(file').out[j].name) # Key(last'.params.name)
               /\ hits # {} => last'.out = << before[Min(hits)] >>
      ]_vars

(***************************************************************************)
(* Properties of the store opened on a new file, checked under SpecNewFile. *)
(***************************************************************************)
\* C21: the header row is optional.  On a store opened on a newly created
\* empty file, a record written by insert or upsert is stored as a record row
\* and returned by the following get and get_all, and no later operation fails
\* to read the file.
C21_HeaderOptional ==
    [][ /\ ((Called("insert") \/ Called("upsert")) /\ last'.ok)
            => /\ file'[Len(file')] = serialize(last'.out[1])
               /\ get_all(file').ok
               /\ \E i \in 1..Len(get_all(file').out) :
                      get_all(file').out[i] = last'.out[1]
               /\ get(file', last'.params.name).out # <<>>
        /\ last'.err # "Csv"
      ]_vars

(***************************************************************************)
(* Properties of the bytes of a row, checked under SpecCsv.                *)
(***************************************************************************)
\* C22: a record whose name or free-text field holds a comma or a newline is
\* stored as exactly one record, and get_all returns it with that field equal
\* to the written string, character for character.
C22_RoundTrip ==
    wire.stage = "read" =>
        /\ Len(wire.rows) = 1
        /\ wire.rows[1] = << wire.name, wire.text >>

\* C22 case: a name with a newline and a comma and a text with a comma and a
\* quote were written and read back.
C22_Witness ==
    /\ wire.stage = "read"
    /\ wire.name = << "\n", "," >>
    /\ wire.text = << ",", "\"" >>
    /\ Len(wire.bytes) > Len(header_bytes) + 6

(***************************************************************************)
(* Properties of the server, checked under SpecServer.                     *)
(***************************************************************************)
\* Where a handler stands from its acquisition of the lock, through its
\* store calls (next at "locked" and at "dump"), until it returns.
HoldingPcs == {"locked", "dump", "await_csv", "await_error"}

\* C9: no two store operations of request handlers run concurrently against
\* one store: a handler that calls the store holds the exclusive lock of that
\* store from before its first store call until after its last one, and
\* nobody else holds it meanwhile.
C9_StoreCallsUnderLock ==
    \A r \in Reqs :
        reqs[r].pc \in HoldingPcs => app[reqs[r].worker].lock = {r}

\* C9 case: a handler waits for the lock of a store while another handler of
\* the same worker, between its store calls and its return, holds it.
C9_Witness ==
    \E r1, r2 \in Reqs :
        /\ r1 # r2
        /\ reqs[r1].worker = reqs[r2].worker
        /\ reqs[r1].pc = "await_csv"
        /\ reqs[r2].pc = "start" /\ reqs[r2].kind = "add"

\* C10: all request handlers share one store with one lock, so the store
\* calls of requests served by different workers are serialized: no two
\* requests are between lock acquisition and return at the same time.
C10_OneStoreForAllWorkers ==
    \A r1, r2 \in Reqs :
        (reqs[r1].pc \in HoldingPcs /\ reqs[r2].pc \in HoldingPcs) => r1 = r2

\* C18: a failure to send the mail never changes what handle_rsvp returns:
\* after a successful upsert the confirmation page of the upserted record,
\* after a failed upsert the store's error, whether or not the mail went out.
C18_MailNeverChangesOutcome ==
    [][ \A r \in Reqs :
          (reqs[r].pc \in {"await_csv", "await_error"} /\ reqs'[r].pc = "done")
          => IF reqs[r].ok
             THEN /\ reqs'[r].resp = "confirm_page"
                  /\ reqs'[r].out = reqs[r].out /\ reqs[r].out # <<>>
             ELSE /\ reqs'[r].resp = "error"
                  /\ reqs'[r].err = reqs[r].err
                  /\ reqs[r].err \in {"Update", "Csv"}
      ]_vars

\* C18 case: one request was answered with the confirmation page and another
\* with the store's error, the mail of both having failed.
C18_Witness ==
    \E r1, r2 \in Reqs :
        /\ reqs[r1].pc = "done" /\ reqs[r1].sent = "failed"
        /\ reqs[r1].resp = "confirm_page"
        /\ reqs[r2].pc = "done" /\ reqs[r2].sent = "failed"
        /\ reqs[r2].resp = "error" /\ reqs[r2].err = "Update"

\* C23: handle_fetch answers an empty name with the not-found page, whatever
\* the store holds and without calling the store; it answers a non-empty
\* name with the record's page when some stored record has that name or that
\* plus-one name, and with the not-found page otherwise.
C23_FetchPages ==
    [][ \A r \in Reqs :
          (reqs[r].kind = "fetch" /\ reqs[r].pc # "done" /\ reqs'[r].pc = "done")
          => IF reqs[r].params.name = <<>>
             THEN /\ reqs'[r].resp = "not_found"
                  /\ reqs[r].pc = "start"
                  /\ file' = file
                  /\ \A w \in Workers :
                        /\ app'[w].cursor = app[w].cursor
                        /\ app'[w].lock = app[w].lock
             ELSE LET all == get_all(file)
                      parts == C11_parts(reqs[r].params.name)
                  IN  all.ok
                      => reqs'[r].resp =
                            IF \E i \in 1..Len(all.out) :
                                  \/ to_lowercase(all.out[i].name) \in parts
                                  \/ to_lowercase(all.out[i].plus_one_name)
                                        \in parts
                            THEN "rsvp_page"
                            ELSE "not_found"
      ]_vars

\* C23 case: a fetch with the empty name got the not-found page from a store
\* holding a record with an empty plus_one_name.
C23_Witness ==
    \E r1 \in Reqs :
        /\ reqs[r1].pc = "done" /\ reqs[r1].kind = "fetch"
        /\ reqs[r1].params.name = <<>> /\ reqs[r1].resp = "not_found"
        /\ get_all(file).ok
        /\ \E i \in 1..Len(get_all(file).out) :
              get_all(file).out[i].plus_one_name = <<>>

\* C28: in handle_rsvp the upsert and the dump for the confirmation mail run
\* with no store operation of another request between them: while a handler
\* stands between the two, no other handler calls the store and the file
\* stays as the upsert left it, and the contents dumped hold the upserted
\* row.
C28_UpsertThenDump ==
    [][ \A r \in Reqs :
          reqs[r].pc = "dump"
          => /\ file' = file
             /\ \A q \in Reqs \ {r} :
                   reqs[q].pc \in {"locked", "dump"} => reqs'[q].pc = reqs[q].pc
             /\ reqs'[r].pc = "await_csv"
                   => \E i \in 1..Len(dump(file).text) :
                         dump(file).text[i] = serialize(reqs[r].out[1])
      ]_vars

\* A step of the handler of request r, from its start to its return.
HandlerStep(r) ==
    \/ FetchEmpty(r)
    \/ Lock(r)
    \/ FetchGet(r)
    \/ RsvpUpsert(r)
    \/ RsvpDump(r)
    \/ EmailDone(r)
    \/ AddInsert(r)

====
